---- MODULE Spec2Model ----
(***************************************************************************)
(* Cart and checkout core of the e-commerce REST API.                      *)
(*                                                                         *)
(* The database (PostgreSQL, READ COMMITTED, reached through Sequelize) is *)
(* the shared state: products, carts, cart items, orders, order items and  *)
(* their id sequences.  Every request handler is an async function: the    *)
(* code between two awaits runs atomically on the event loop and every     *)
(* awaited query is one atomic statement of the database, so a handler is  *)
(* a sequence of steps, one per awaited statement, and the steps of the    *)
(* handlers in flight interleave.                                          *)
(***************************************************************************)
EXTENDS Integers, Sequences, FiniteSets, TLC

\* ------------------------------------------------------------------ bounds
MaxRequests == 2     \* requests accepted in one behaviour
MaxQty      == 2     \* largest quantity a request asks for
MaxStock    == 2     \* largest stock of the products at the start
MaxPrice    == 1     \* largest price (in minor units) an admin sets

Users    == {1, 2}          \* customers (req.user.id)
Products == {1, 2, 3}       \* ids of the Products sequence
Stocked  == {1, 2}          \* the product rows at the start; id 3 is the next one created
Categories == {1}           \* category rows
CategoryIds == {1, 2}       \* categoryId of a request body
Together == {"r1", "r2"}    \* handlers of two requests that are in flight together
Client   == "client"        \* handler of a client that sends one request after the other
Procs    == Together \cup {Client}

\* the text of two one-digit quantities read as a number is 11 at least
LargeStock == 11

Quantities == 1..MaxQty
Stocks     == {0, MaxStock, LargeStock}
Prices     == 0..MaxPrice

\* ------------------------------------------------------------------- state
VARIABLES
  products,     \* ids of the rows of Products
  stock,        \* Products.stock, committed value per product
  price,        \* Products.price per product
  carts,        \* rows of Carts: [id, userId]
  cartItems,    \* rows of CartItems: [id, cartId, productId, quantity, priceAtAdd]
  orders,       \* rows of Orders: [id, userId, totalAmount, status]
  orderItems,   \* rows of OrderItems: [id, orderId, productId, quantity, priceAtPurchase]
  seqs,         \* the autoIncrement sequences: next id per table
  pc,           \* per handler: the statement it is about to run
  loc,          \* per handler: its local variables
  tx,           \* per handler: the uncommitted writes of its transaction t
  res,          \* per handler: the response it sent last
  pre,          \* per handler: the committed database when its request arrived
  born,         \* per cart item id: the product's price when the line was inserted
  nreq          \* requests accepted so far

vars == <<products, stock, price, carts, cartItems, orders, orderItems, seqs,
          pc, loc, tx, res, pre, born, nreq>>

db == <<products, stock, price, carts, cartItems, orders, orderItems, seqs, born>>

\* ----------------------------------------------------------------- helpers
NoItem == [id |-> 0, cartId |-> 0, productId |-> 0, quantity |-> 0, priceAtAdd |-> 0]
NoProduct == [id |-> 0, stock |-> 0, price |-> 0]
NoOrder == [id |-> 0, userId |-> 0, totalAmount |-> 0, status |-> "none"]

NoLoc == [op |-> "none", userId |-> 0, productId |-> 0, quantity |-> 0, asText |-> FALSE,
          itemId |-> 0, product |-> NoProduct, cart |-> 0, cartItem |-> NoItem,
          items |-> <<>>, i |-> 0, j |-> 0, totalAmount |-> 0, orderItems |-> <<>>,
          orderId |-> 0, newPrice |-> 0, newStock |-> 0, categoryId |-> 0,
          sameRest |-> FALSE,
          status |-> "none", order |-> NoOrder, error |-> "none", why |-> "none",
          role |-> "none", seen |-> {}]

NoTx == [active |-> FALSE, decr |-> [p \in Products |-> 0], order |-> NoOrder,
         orderItems |-> {}, deleted |-> {}, clearedCart |-> 0]

NoRes == [status |-> 0, kind |-> "none", total |-> 0]

NoPre == [products |-> {}, stock |-> [p \in Products |-> 0],
          price |-> [p \in Products |-> 0],
          cartItems |-> {}, orders |-> {}, orderItems |-> {}]

Snapshot == [products |-> products, stock |-> stock, price |-> price,
             cartItems |-> cartItems, orders |-> orders, orderItems |-> orderItems]

RECURSIVE SetToSeqs(_)
\* every order in which a query without ORDER BY can return the rows of S
SetToSeqs(S) ==
  IF S = {} THEN {<<>>}
  ELSE UNION {{<<x>> \o s : s \in SetToSeqs(S \ {x})} : x \in S}

Idle(p) == pc[p] \in {"idle", "done"}

CartsOf(u) == {c \in carts : c.userId = u}
ItemsOfCart(cid) == {it \in cartItems : it.cartId = cid}
LinesOf(u) == {it \in cartItems : \E c \in CartsOf(u) : it.cartId = c.id}

\* a row lock taken by a transaction that has not ended yet
ProductLockedByOther(p, prod) ==
  \E q \in Procs \ {p} : tx[q].active /\ tx[q].decr[prod] > 0
ItemLockedByOther(p, id) ==
  \E q \in Procs \ {p} : tx[q].active /\ id \in tx[q].deleted

\* what a handler keeps once it has responded: its request and what it made
Kept(l) == [NoLoc EXCEPT !.op = l.op, !.userId = l.userId, !.productId = l.productId,
                         !.quantity = l.quantity, !.asText = l.asText,
                         !.itemId = l.itemId,
                         !.cart = l.cart, !.orderId = l.orderId, !.i = l.i,
                         !.newPrice = l.newPrice, !.newStock = l.newStock,
                         !.status = l.status, !.error = l.error,
                         !.role = l.role, !.seen = l.seen]

\* res.status(status).json(...): the handler ends
RespondTotal(p, l, status, kind, total) ==
  /\ pc' = [pc EXCEPT ![p] = "done"]
  /\ loc' = [loc EXCEPT ![p] = Kept(l)]
  /\ res' = [res EXCEPT ![p] = [status |-> status, kind |-> kind, total |-> total]]

Respond(p, l, status, kind) == RespondTotal(p, l, status, kind, 0)

\* the handler goes on to its next awaited statement
Goto(p, l, label) ==
  /\ pc' = [pc EXCEPT ![p] = label]
  /\ loc' = [loc EXCEPT ![p] = l]
  /\ res' = [res EXCEPT ![p] = NoRes]

\* a request arrives: a handler of Together serves one request, "r1" the one
\* that arrives first; the Client's handler serves up to MaxRequests, each
\* after the response to the one before
Accept(p) ==
  /\ IF p \in Together THEN pc[p] = "idle" /\ (p = "r2" => pc["r1"] # "idle")
                        ELSE Idle(p)
  /\ nreq < MaxRequests
  /\ nreq' = nreq + 1
  /\ pre' = [pre EXCEPT ![p] = Snapshot]

\* -------------------------------------------------------------------- Init
\* The database the requests start from: a store whose admin has created the
\* products of Stocked, and either no cart yet (Fresh), or the carts that four
\* addToCart requests leave (Filled): addToCart(1, 1, MaxQty), addToCart(1, 2, 1),
\* addToCart(2, 1, 1), addToCart(2, 2, MaxQty), each a first add of its product,
\* or what the checkout of customer 1 then leaves (Ordered).  Product 1 was free
\* when customer 2 added it and the admin has raised its price since.
Line(id, cartId, productId, quantity) ==
  [id |-> id, cartId |-> cartId, productId |-> productId,
   quantity |-> quantity, priceAtAdd |-> MaxPrice]

FreeLine(id, cartId, productId, quantity) ==
  [Line(id, cartId, productId, quantity) EXCEPT !.priceAtAdd = 0]

Fresh ==
  /\ carts = {}
  /\ cartItems = {}
  /\ seqs = [product |-> 3, cart |-> 1, item |-> 1, order |-> 1, orderItem |-> 1]
  /\ born = <<>>

Filled ==
  /\ carts = {[id |-> 1, userId |-> 1], [id |-> 2, userId |-> 2]}
  /\ cartItems = {Line(1, 1, 1, MaxQty), Line(2, 1, 2, 1),
                  FreeLine(3, 2, 1, 1), Line(4, 2, 2, MaxQty)}
  /\ seqs = [product |-> 3, cart |-> 3, item |-> 5, order |-> 1, orderItem |-> 1]
  /\ born = <<MaxPrice, MaxPrice, 0, MaxPrice>>

\* no checkout yet
Unsold ==
  /\ stock = [p \in Products |-> IF p \in Stocked THEN MaxStock ELSE 0]
  /\ orders = {}
  /\ orderItems = {}

Ordered ==
  /\ carts = {[id |-> 1, userId |-> 1], [id |-> 2, userId |-> 2]}
  /\ cartItems = {FreeLine(3, 2, 1, 1), Line(4, 2, 2, MaxQty)}
  /\ seqs = [product |-> 3, cart |-> 3, item |-> 5, order |-> 2, orderItem |-> 3]
  /\ born = <<MaxPrice, MaxPrice, 0, MaxPrice>>
  /\ stock = [p \in Products |-> IF p = 1 THEN MaxStock - MaxQty
                                 ELSE IF p = 2 THEN MaxStock - 1 ELSE 0]
  /\ orders = {[id |-> 1, userId |-> 1, totalAmount |-> (MaxQty + 1) * MaxPrice,
                status |-> "pending"]}
  /\ orderItems = {[id |-> 1, orderId |-> 1, productId |-> 1, quantity |-> MaxQty,
                    priceAtPurchase |-> MaxPrice],
                   [id |-> 2, orderId |-> 1, productId |-> 2, quantity |-> 1,
                    priceAtPurchase |-> MaxPrice]}

Init ==
  /\ products = Stocked
  /\ price = [p \in Products |-> IF p \in Stocked THEN MaxPrice ELSE 0]
  /\ (Fresh /\ Unsold) \/ (Filled /\ Unsold) \/ Ordered
  /\ pc = [p \in Procs |-> "idle"]
  /\ loc = [p \in Procs |-> NoLoc]
  /\ tx = [p \in Procs |-> NoTx]
  /\ res = [p \in Procs |-> NoRes]
  /\ pre = [p \in Procs |-> NoPre]
  /\ nreq = 0

\* --------------------------------------------------------------- addToCart
\* JavaScript truthiness of a DECIMAL column as pg returns it: a string such
\* as "0.00" is truthy, only a missing value is falsy
NoPrice == -1

\* the truthiness of the price as a number: zero is falsy too
FalsyLikeNumber(priceAtAdd) == priceAtAdd = NoPrice \/ priceAtAdd = 0

Falsy(priceAtAdd) == priceAtAdd = NoPrice

\* the check with the bound off by one
AddRejectedOffByOne(productStock, newQuantity) == productStock + 1 < newQuantity

\* if (product.stock < newQuantity) return 400: a newQuantity that is text is
\* compared as the number it reads as
AddRejected(productStock, newQuantity) == productStock < newQuantity

\* the number that the decimal text of a followed by the text of b reads as
Concatenated(a, b) == a * (IF b < 10 THEN 10 ELSE 100) + b

\* const newQuantity = cartItem.quantity + quantity: the sum when the body's
\* quantity is a number, the concatenation when it is text (isInt accepts "1")
NewQuantity(oldQuantity, quantity, asText) ==
  IF asText THEN Concatenated(oldQuantity, quantity) ELSE oldQuantity + quantity

\* if (!cartItem.priceAtAdd) cartItem.priceAtAdd = product.price
KeptPrice(priceAtAdd, productPrice) ==
  IF Falsy(priceAtAdd) THEN productPrice ELSE priceAtAdd

\* CartItem.create({cartId, productId, quantity, priceAtAdd: product.price})
NewLine(id, cartId, productId, quantity, product) ==
  [id |-> id, cartId |-> cartId, productId |-> productId,
   quantity |-> quantity, priceAtAdd |-> product.price]

\* POST /api/cart: the request arrives and Product.findByPk(productId) runs
AddToCart(p, u, prod, q, asText) ==
  /\ Accept(p)
  /\ LET l == [NoLoc EXCEPT !.op = "addToCart", !.role = "customer", !.userId = u,
                            !.productId = prod, !.quantity = q, !.asText = asText] IN
       IF prod \notin products
         THEN Respond(p, l, 404, "ProductNotFound")
         ELSE Goto(p, [l EXCEPT !.product = [id |-> prod, stock |-> stock[prod],
                                             price |-> price[prod]]],
                   "add_findCart")
  /\ UNCHANGED <<db, tx>>

\* let cart = await Cart.findOne({ where: { userId } })
AddFindCart(p) ==
  /\ pc[p] = "add_findCart"
  /\ IF CartsOf(loc[p].userId) = {}
       THEN Goto(p, loc[p], "add_createCart")
       ELSE \E c \in CartsOf(loc[p].userId) :
              Goto(p, [loc[p] EXCEPT !.cart = c.id], "add_findItem")
  /\ UNCHANGED <<db, tx, pre, nreq>>

\* cart = await Cart.create({ userId })
AddCreateCart(p) ==
  /\ pc[p] = "add_createCart"
  /\ carts' = carts \cup {[id |-> seqs.cart, userId |-> loc[p].userId]}
  /\ seqs' = [seqs EXCEPT !.cart = @ + 1]
  /\ Goto(p, [loc[p] EXCEPT !.cart = seqs.cart], "add_findItem")
  /\ UNCHANGED <<products, stock, price, cartItems, orders, orderItems, born,
                 tx, pre, nreq>>

\* the synchronous code that follows CartItem.findOne, up to the next await
AddDecide(p, found) ==
  IF found = NoItem
    THEN Goto(p, [loc[p] EXCEPT !.cartItem = NoItem], "add_create")
    ELSE LET newQuantity == NewQuantity(found.quantity, loc[p].quantity, loc[p].asText) IN
         IF AddRejected(loc[p].product.stock, newQuantity)
           THEN Respond(p, loc[p], 400, "InsufficientStock")
           ELSE Goto(p, [loc[p] EXCEPT !.cartItem =
                           [found EXCEPT !.quantity = newQuantity,
                                         !.priceAtAdd = KeptPrice(found.priceAtAdd,
                                                                  loc[p].product.price)]],
                     "add_save")

\* let cartItem = await CartItem.findOne({ where: { cartId: cart.id, productId } })
AddFindItem(p) ==
  /\ pc[p] = "add_findItem"
  /\ LET found == {it \in ItemsOfCart(loc[p].cart) : it.productId = loc[p].productId} IN
       IF found = {} THEN AddDecide(p, NoItem)
       ELSE \E it \in found : AddDecide(p, it)
  /\ UNCHANGED <<db, tx, pre, nreq>>

\* UPDATE "CartItems" SET quantity, priceAtAdd WHERE id: the row as saved
SavedRows(rows, item) ==
  {IF it.id = item.id
     THEN [it EXCEPT !.quantity = item.quantity, !.priceAtAdd = item.priceAtAdd]
     ELSE it : it \in rows}

\* await cartItem.save(): the UPDATE waits for the row's lock
AddSave(p) ==
  /\ pc[p] = "add_save"
  /\ ~ItemLockedByOther(p, loc[p].cartItem.id)
  /\ cartItems' = SavedRows(cartItems, loc[p].cartItem)
  /\ Goto(p, loc[p], "add_refetch")
  /\ UNCHANGED <<products, stock, price, carts, orders, orderItems, seqs, born,
                 tx, pre, nreq>>

\* cartItem = await CartItem.create({...}): the INSERT takes the next id and is
\* refused by the foreign key on productId when the product's row has gone
\* since it was read; the catch then answers 500
AddCreate(p) ==
  /\ pc[p] = "add_create"
  /\ seqs' = [seqs EXCEPT !.item = @ + 1]
  /\ born' = Append(born, price[loc[p].productId])
  /\ IF loc[p].productId \in products
       THEN /\ cartItems' = cartItems \cup
                 {NewLine(seqs.item, loc[p].cart, loc[p].productId, loc[p].quantity,
                          loc[p].product)}
            /\ Goto(p, [loc[p] EXCEPT !.itemId = seqs.item], "add_refetch")
       ELSE /\ cartItems' = cartItems
            /\ Respond(p, loc[p], 500, "Error")
  /\ UNCHANGED <<products, stock, price, carts, orders, orderItems, tx, pre, nreq>>

\* const updatedCart = await Cart.findOne({ where: { userId }, include: items }),
\* then res.status(200)
AddRefetch(p) ==
  /\ pc[p] = "add_refetch"
  /\ Respond(p, loc[p], 200, "ok")
  /\ UNCHANGED <<db, tx, pre, nreq>>

\* ----------------------------------------------------------------- getCart
RECURSIVE CartTotalAtCurrentPrice(_)
\* the total taken from the products' prices now
CartTotalAtCurrentPrice(items) ==
  IF items = {} THEN 0
  ELSE LET it == CHOOSE x \in items : TRUE
       IN price[it.productId] * it.quantity + CartTotalAtCurrentPrice(items \ {it})

RECURSIVE CartTotal(_)
\* cart.items.reduce((sum, item) => sum + parseFloat(item.priceAtAdd) * item.quantity, 0)
CartTotal(items) ==
  IF items = {} THEN 0
  ELSE LET it == CHOOSE x \in items : TRUE
       IN it.priceAtAdd * it.quantity + CartTotal(items \ {it})

\* GET /api/cart: Cart.findOne({ where: { userId }, include: items })
GetCart(p, u) ==
  /\ Accept(p)
  /\ LET l == [NoLoc EXCEPT !.op = "getCart", !.role = "customer", !.userId = u] IN
       IF CartsOf(u) = {}
         THEN Goto(p, l, "get_createCart")
         ELSE \E c \in CartsOf(u) :
                RespondTotal(p, [l EXCEPT !.cart = c.id], 200, "ok",
                             CartTotal(ItemsOfCart(c.id)))
  /\ UNCHANGED <<db, tx>>

\* cart = await Cart.create({ userId }); cart.items = []
GetCreateCart(p) ==
  /\ pc[p] = "get_createCart"
  /\ carts' = carts \cup {[id |-> seqs.cart, userId |-> loc[p].userId]}
  /\ seqs' = [seqs EXCEPT !.cart = @ + 1]
  /\ RespondTotal(p, [loc[p] EXCEPT !.cart = seqs.cart], 200, "ok", CartTotal({}))
  /\ UNCHANGED <<products, stock, price, cartItems, orders, orderItems, born,
                 tx, pre, nreq>>

\* ---------------------------------------------------------- updateCartItem
\* a body without quantity: PUT /api/cart/:itemId validates the itemId only
NoQuantity == -1

\* the lookup without its cartId condition
FindItemOfAnyCart(cartId, itemId) == {it \in cartItems : it.id = itemId}

\* CartItem.findOne({ where: { id: itemId, cartId: cart.id } })
FindItem(cartId, itemId) ==
  {it \in cartItems : it.id = itemId /\ it.cartId = cartId}

\* PUT /api/cart/:itemId: Cart.findOne({ where: { userId } })
UpdateCartItem(p, u, itemId, q) ==
  /\ Accept(p)
  /\ LET l == [NoLoc EXCEPT !.op = "updateCartItem", !.role = "customer", !.userId = u,
                            !.itemId = itemId, !.quantity = q] IN
       IF CartsOf(u) = {}
         THEN Respond(p, l, 404, "CartNotFound")
         ELSE \E c \in CartsOf(u) : Goto(p, [l EXCEPT !.cart = c.id], "upd_findItem")
  /\ UNCHANGED <<db, tx>>

\* the check that lets a quantity of zero through
InvalidQuantityBelowZero(quantity) == quantity # NoQuantity /\ quantity < 0

\* if (quantity < 1): undefined < 1 is false
InvalidQuantity(quantity) == quantity # NoQuantity /\ quantity < 1

\* if (cartItem.product.stock < quantity): stock < undefined is false
UpdRejected(productStock, quantity) == quantity # NoQuantity /\ productStock < quantity

\* the quantity added to the line's
AddedQuantity(item, quantity) == [item EXCEPT !.quantity = @ + quantity]

\* cartItem.quantity = quantity
SetQuantity(item, quantity) == [item EXCEPT !.quantity = quantity]

\* CartItem.findOne({ where: { id: itemId, cartId: cart.id }, include: product })
\* and the checks that follow it
UpdFindItem(p) ==
  /\ pc[p] = "upd_findItem"
  /\ LET found == FindItem(loc[p].cart, loc[p].itemId) IN
       IF found = {} THEN Respond(p, loc[p], 404, "CartItemNotFound")
       ELSE \E it \in found :
         IF InvalidQuantity(loc[p].quantity)
           THEN Respond(p, loc[p], 400, "InvalidQuantity")
         ELSE IF UpdRejected(stock[it.productId], loc[p].quantity)
           THEN Respond(p, loc[p], 400, "InsufficientStock")
           ELSE Goto(p, [loc[p] EXCEPT !.cartItem = it], "upd_save")
  /\ UNCHANGED <<db, tx, pre, nreq>>

\* cartItem.quantity = quantity; await cartItem.save(): save() validates the
\* row (a missing quantity is rejected and the catch answers 500), then writes
\* the changed fields: no statement, and no wait, when quantity is the value
\* that was read, an UPDATE that waits for the row's lock otherwise
UpdSave(p) ==
  /\ pc[p] = "upd_save"
  /\ IF loc[p].quantity = NoQuantity
       THEN /\ cartItems' = cartItems
            /\ Respond(p, loc[p], 500, "Error")
       ELSE IF loc[p].quantity = loc[p].cartItem.quantity
       THEN /\ cartItems' = cartItems
            /\ Goto(p, loc[p], "upd_refetch")
       ELSE /\ ~ItemLockedByOther(p, loc[p].cartItem.id)
            /\ cartItems' = SavedRows(cartItems,
                                      SetQuantity(loc[p].cartItem, loc[p].quantity))
            /\ Goto(p, loc[p], "upd_refetch")
  /\ UNCHANGED <<products, stock, price, carts, orders, orderItems, seqs, born,
                 tx, pre, nreq>>

\* const updatedCart = await Cart.findOne(...), then res.status(200)
UpdRefetch(p) ==
  /\ pc[p] = "upd_refetch"
  /\ Respond(p, loc[p], 200, "ok")
  /\ UNCHANGED <<db, tx, pre, nreq>>

\* ---------------------------------------------------------- removeFromCart
\* DELETE /api/cart/:itemId: Cart.findOne({ where: { userId } })
RemoveFromCart(p, u, itemId) ==
  /\ Accept(p)
  /\ LET l == [NoLoc EXCEPT !.op = "removeFromCart", !.role = "customer",
                            !.userId = u, !.itemId = itemId] IN
       IF CartsOf(u) = {}
         THEN Respond(p, l, 404, "CartNotFound")
         ELSE \E c \in CartsOf(u) : Goto(p, [l EXCEPT !.cart = c.id], "rem_findItem")
  /\ UNCHANGED <<db, tx>>

\* CartItem.findOne({ where: { id: itemId, cartId: cart.id } })
RemFindItem(p) ==
  /\ pc[p] = "rem_findItem"
  /\ IF FindItem(loc[p].cart, loc[p].itemId) # {}
       THEN Goto(p, loc[p], "rem_destroy")
       ELSE Respond(p, loc[p], 404, "CartItemNotFound")
  /\ UNCHANGED <<db, tx, pre, nreq>>

\* await cartItem.destroy()
RemDestroy(p) ==
  /\ pc[p] = "rem_destroy"
  /\ ~ItemLockedByOther(p, loc[p].itemId)
  /\ cartItems' = {it \in cartItems : it.id # loc[p].itemId}
  /\ Goto(p, loc[p], "rem_refetch")
  /\ UNCHANGED <<products, stock, price, carts, orders, orderItems, seqs, born,
                 tx, pre, nreq>>

\* const updatedCart = await Cart.findOne(...), then res.status(200)
RemRefetch(p) ==
  /\ pc[p] = "rem_refetch"
  /\ Respond(p, loc[p], 200, "ok")
  /\ UNCHANGED <<db, tx, pre, nreq>>

\* --------------------------------------------------------------- clearCart
\* DELETE /api/cart: Cart.findOne({ where: { userId } })
ClearCart(p, u) ==
  /\ Accept(p)
  /\ LET l == [NoLoc EXCEPT !.op = "clearCart", !.role = "customer", !.userId = u] IN
       IF CartsOf(u) = {}
         THEN Respond(p, l, 404, "CartNotFound")
         ELSE \E c \in CartsOf(u) : Goto(p, [l EXCEPT !.cart = c.id], "clr_destroy")
  /\ UNCHANGED <<db, tx>>

\* the delete without its where clause
ClearedEveryCart(rows, cartId) == {}

\* DELETE FROM "CartItems" WHERE "cartId" = cart.id
Cleared(rows, cartId) == {it \in rows : it.cartId # cartId}

\* await CartItem.destroy({ where: { cartId: cart.id } }), then res.status(200)
ClrDestroy(p) ==
  /\ pc[p] = "clr_destroy"
  /\ \A it \in ItemsOfCart(loc[p].cart) : ~ItemLockedByOther(p, it.id)
  /\ cartItems' = Cleared(cartItems, loc[p].cart)
  /\ Respond(p, loc[p], 200, "ok")
  /\ UNCHANGED <<products, stock, price, carts, orders, orderItems, seqs, born,
                 tx, pre, nreq>>

\* ----------------------------------------------------------- createProduct
\* POST /api/products (admin): Category.findByPk(categoryId); the requests
\* accepted are those whose row gets an id of Products
CreateProduct(p, newPrice, newStock, categoryId) ==
  /\ Accept(p)
  /\ seqs.product + Cardinality({q \in Procs : pc[q] = "cp_create"}) \in Products
  /\ LET l == [NoLoc EXCEPT !.op = "createProduct", !.role = "admin",
                            !.newPrice = newPrice, !.newStock = newStock] IN
       IF categoryId \notin Categories
         THEN Respond(p, l, 404, "CategoryNotFound")
         ELSE Goto(p, l, "cp_create")
  /\ UNCHANGED <<db, tx>>

\* const product = await Product.create({ name, description, price, stock, ... })
CpCreate(p) ==
  /\ pc[p] = "cp_create"
  /\ products' = products \cup {seqs.product}
  /\ price' = [price EXCEPT ![seqs.product] = loc[p].newPrice]
  /\ stock' = [stock EXCEPT ![seqs.product] = loc[p].newStock]
  /\ seqs' = [seqs EXCEPT !.product = @ + 1]
  /\ Goto(p, [loc[p] EXCEPT !.productId = seqs.product], "cp_refetch")
  /\ UNCHANGED <<carts, cartItems, orders, orderItems, born, tx, pre, nreq>>

\* await Product.findByPk(product.id, include: category), then res.status(201)
CpRefetch(p) ==
  /\ pc[p] = "cp_refetch"
  /\ Respond(p, loc[p], 201, "ok")
  /\ UNCHANGED <<db, tx, pre, nreq>>

\* ----------------------------------------------------------- updateProduct
\* PUT /api/products/:id (admin): Product.findByPk(req.params.id)
UpdateProduct(p, prod, newPrice, newStock, categoryId, sameRest) ==
  /\ Accept(p)
  /\ LET l == [NoLoc EXCEPT !.op = "updateProduct", !.role = "admin", !.productId = prod,
                            !.newPrice = newPrice, !.newStock = newStock] IN
       IF prod \notin products
         THEN Respond(p, l, 404, "ProductNotFound")
         ELSE Goto(p, [l EXCEPT !.categoryId = categoryId, !.sameRest = sameRest,
                                !.product = [id |-> prod, stock |-> stock[prod],
                                             price |-> price[prod]]],
                   "prod_category")
  /\ UNCHANGED <<db, tx>>

\* if (categoryId) { const category = await Category.findByPk(categoryId) ... }:
\* productValidation lets through a body with a categoryId of 1 or more only
ProdCategory(p) ==
  /\ pc[p] = "prod_category"
  /\ IF loc[p].categoryId \notin Categories
       THEN Respond(p, loc[p], 404, "CategoryNotFound")
       ELSE Goto(p, [loc[p] EXCEPT !.categoryId = 0], "prod_update")
  /\ UNCHANGED <<db, tx, pre, nreq>>

\* no field of the body differs from the row the handler read: the price and
\* the stock are the row's, and so is the rest (sameRest: the name, the
\* description and the category are the row's, the price is sent as the text
\* the DECIMAL column is read as and the stock as a number)
SameAsRead(product, newPrice, newStock, sameRest) ==
  sameRest /\ newPrice = product.price /\ newStock = product.stock

\* await product.update({ name, description, price, stock, categoryId, imageUrl }):
\* when no field of the body differs, in value or type, from the row the
\* handler read, update() sends no query and waits for nothing; otherwise, a
\* change of the name alone included, the UPDATE writes every
\* field it is given, so it waits for the row's lock and sets price and stock
\* to the body's values; it changes no row when the product was deleted since
\* it was read
ProdUpdate(p) ==
  /\ pc[p] = "prod_update"
  /\ LET prod == loc[p].productId IN
       IF SameAsRead(loc[p].product, loc[p].newPrice, loc[p].newStock, loc[p].sameRest)
            \/ prod \notin products
         THEN UNCHANGED <<price, stock>>
         ELSE /\ ~ProductLockedByOther(p, prod)
              /\ price' = [price EXCEPT ![prod] = loc[p].newPrice]
              /\ stock' = [stock EXCEPT ![prod] = loc[p].newStock]
  /\ Goto(p, [loc[p] EXCEPT !.product = NoProduct, !.sameRest = FALSE], "prod_refetch")
  /\ UNCHANGED <<products, carts, cartItems, orders, orderItems, seqs, born,
                 tx, pre, nreq>>

\* await Product.findByPk(product.id, include: category), then res.status(200)
ProdRefetch(p) ==
  /\ pc[p] = "prod_refetch"
  /\ Respond(p, loc[p], 200, "ok")
  /\ UNCHANGED <<db, tx, pre, nreq>>

\* ----------------------------------------------------------- deleteProduct
\* DELETE /api/products/:id (admin): Product.findByPk(req.params.id)
DeleteProduct(p, prod) ==
  /\ Accept(p)
  /\ LET l == [NoLoc EXCEPT !.op = "deleteProduct", !.role = "admin", !.productId = prod] IN
       IF prod \notin products
         THEN Respond(p, l, 404, "ProductNotFound")
         ELSE Goto(p, l, "dp_destroy")
  /\ UNCHANGED <<db, tx>>

\* Product.hasMany(CartItem, { foreignKey: 'productId' }) on a column that is
\* allowNull: false: the foreign key is ON DELETE CASCADE
CartItemsAfterProductDelete(rows, prod) == {it \in rows : it.productId # prod}

\* the productId column of an order line: an OrderLine references a product
OrderItemProductIdAllowNull == FALSE

\* the rule hasMany gives a foreign key that names none
OnDelete(allowNull) == IF allowNull THEN "SET NULL" ELSE "CASCADE"

\* Product.hasMany(OrderItem, { foreignKey: 'productId' }): the order lines of
\* the product are deleted with it, or lose their productId
OrderItemsAfterProductDelete(rows, prod) ==
  IF OnDelete(OrderItemProductIdAllowNull) = "CASCADE"
    THEN {oi \in rows : oi.productId # prod}
    ELSE {IF oi.productId = prod THEN [oi EXCEPT !.productId = 0] ELSE oi : oi \in rows}

\* await product.destroy(), then res.status(200): the DELETE waits for the
\* row's lock and for the locks on the cart lines it cascades to; the order
\* lines of the product go by the rule of their foreign key
DpDestroy(p) ==
  /\ pc[p] = "dp_destroy"
  /\ LET prod == loc[p].productId IN
       IF prod \in products
         THEN /\ ~ProductLockedByOther(p, prod)
              /\ \A it \in cartItems : it.productId = prod => ~ItemLockedByOther(p, it.id)
              /\ products' = products \ {prod}
              /\ price' = [price EXCEPT ![prod] = 0]
              /\ stock' = [stock EXCEPT ![prod] = 0]
              /\ cartItems' = CartItemsAfterProductDelete(cartItems, prod)
              /\ orderItems' = OrderItemsAfterProductDelete(orderItems, prod)
         ELSE UNCHANGED <<products, price, stock, cartItems, orderItems>>
  /\ Respond(p, loc[p], 200, "ok")
  /\ UNCHANGED <<carts, orders, seqs, born, tx, pre, nreq>>

\* -------------------------------------------------------------- placeOrder
\* a cart line as Cart.findOne returns it, joined with its product
Joined(it) == [id |-> it.id, cartId |-> it.cartId, productId |-> it.productId,
               quantity |-> it.quantity, priceAtAdd |-> it.priceAtAdd,
               stock |-> stock[it.productId], price |-> price[it.productId]]

\* the check without its test of the number of lines
CartIsMissing(cartId, items) == cartId = 0

\* if (!cart || cart.items.length === 0)
CartIsEmpty(cartId, items) == cartId = 0 \/ Len(items) = 0

\* if (item.product.stock < item.quantity)
OutOfStock(item) == item.stock < item.quantity

\* the order line priced from the product instead of the cart line
OrderLineAtCurrentPrice(item) ==
  [productId |-> item.productId, quantity |-> item.quantity,
   priceAtPurchase |-> item.price]

\* orderItems.push({ productId, quantity, priceAtPurchase: item.priceAtAdd })
OrderLine(item) == [productId |-> item.productId, quantity |-> item.quantity,
                    priceAtPurchase |-> item.priceAtAdd]

\* const itemTotal = parseFloat(item.priceAtAdd) * item.quantity, in minor units
LineTotal(item) == item.priceAtAdd * item.quantity

\* the body of the for loop up to its await: the check of item i, the total and
\* the order line; past the last item the handler goes on to Order.create
PoCheck(p, l) ==
  IF l.i > Len(l.items) THEN Goto(p, l, "po_create")
  ELSE LET item == l.items[l.i] IN
       IF OutOfStock(item) THEN Goto(p, [l EXCEPT !.why = "InsufficientStock"], "po_rollback")
       ELSE Goto(p, [l EXCEPT !.totalAmount = @ + LineTotal(item),
                              !.orderItems = Append(@, OrderLine(item))],
                 "po_decrement")

\* POST /api/orders: const t = await sequelize.transaction()
PlaceOrder(p, u) ==
  /\ Accept(p)
  /\ tx' = [tx EXCEPT ![p] = [NoTx EXCEPT !.active = TRUE]]
  /\ Goto(p, [NoLoc EXCEPT !.op = "placeOrder", !.role = "customer", !.userId = u],
          "po_findCart")
  /\ UNCHANGED db

\* await Cart.findOne with the items and their products, inside t and without
\* a lock; then the empty-cart test and the check of the first item
PoFindCart(p) ==
  /\ pc[p] = "po_findCart"
  /\ LET l == loc[p] IN
       IF CartsOf(l.userId) = {}
         THEN Goto(p, [l EXCEPT !.why = "CartEmpty"], "po_rollback")
         ELSE \E c \in CartsOf(l.userId) : \E items \in SetToSeqs(ItemsOfCart(c.id)) :
                IF CartIsEmpty(c.id, items)
                  THEN Goto(p, [l EXCEPT !.cart = c.id, !.why = "CartEmpty"], "po_rollback")
                  ELSE PoCheck(p, [l EXCEPT !.cart = c.id, !.i = 1,
                                   !.items = [k \in 1..Len(items) |-> Joined(items[k])]])
  /\ UNCHANGED <<db, tx, pre, nreq>>

\* await item.product.decrement('stock', { by: item.quantity, transaction: t }):
\* UPDATE "Products" SET stock = stock - by WHERE id, which waits for the row's
\* lock and changes no row when the product has been deleted since it was read
DecrementedByOne(decr, item) == [decr EXCEPT ![item.productId] = @ + 1]

Decremented(decr, item) == [decr EXCEPT ![item.productId] = @ + item.quantity]

PoDecrement(p) ==
  /\ pc[p] = "po_decrement"
  /\ LET item == loc[p].items[loc[p].i] IN
       /\ IF item.productId \in products
            THEN /\ ~ProductLockedByOther(p, item.productId)
                 /\ tx' = [tx EXCEPT ![p].decr = Decremented(@, item)]
            ELSE tx' = tx
       /\ PoCheck(p, [loc[p] EXCEPT !.i = @ + 1])
  /\ UNCHANGED <<db, pre, nreq>>

\* a commit that stops the stock at zero
CommittedStockClamped(t) ==
  [prod \in Products |-> IF stock[prod] < t.decr[prod] THEN 0
                         ELSE stock[prod] - t.decr[prod]]

\* the committed database once t's writes are applied
CommittedStock(t) == [prod \in Products |-> stock[prod] - t.decr[prod]]
CommittedItems(t) == {it \in cartItems : it.id \notin t.deleted}

\* a rollback that lets the decrements of t through
RollbackKeepsDecrements(t) == CommittedStock(t)

\* await t.rollback(): the writes of t are dropped and its locks released
RolledBackStock(t) == stock
RolledBack(t) == NoTx

\* the two exits before any failure: await t.rollback(), then 400 'Cart is
\* empty' or 'Insufficient stock ...'
PoRollback(p) ==
  /\ pc[p] = "po_rollback"
  /\ stock' = RolledBackStock(tx[p])
  /\ tx' = [tx EXCEPT ![p] = RolledBack(@)]
  /\ Respond(p, loc[p], 400, loc[p].why)
  /\ UNCHANGED <<products, price, carts, cartItems, orders, orderItems, seqs, born,
                 pre, nreq>>

\* the order created already completed
NewOrderCompleted(id, userId, totalAmount) ==
  [id |-> id, userId |-> userId, totalAmount |-> totalAmount, status |-> "completed"]

\* Order.create({ userId, totalAmount: totalAmount.toFixed(2), status: 'pending' })
NewOrder(id, userId, totalAmount) ==
  [id |-> id, userId |-> userId, totalAmount |-> totalAmount, status |-> "pending"]

\* OrderItem.create({ orderId: order.id, ...item })
NewOrderItem(id, orderId, line) ==
  [id |-> id, orderId |-> orderId, productId |-> line.productId,
   quantity |-> line.quantity, priceAtPurchase |-> line.priceAtPurchase]

\* const order = await Order.create({ ... }, { transaction: t }), then the
\* loop over orderItems, which has no turn when there is no order line
PoCreateOrder(p) ==
  /\ pc[p] = "po_create"
  /\ tx' = [tx EXCEPT ![p].order = NewOrder(seqs.order, loc[p].userId, loc[p].totalAmount)]
  /\ seqs' = [seqs EXCEPT !.order = @ + 1]
  /\ IF Len(loc[p].orderItems) = 0
       THEN Goto(p, [loc[p] EXCEPT !.orderId = seqs.order], "po_destroy")
       ELSE Goto(p, [loc[p] EXCEPT !.orderId = seqs.order, !.j = 1], "po_createItem")
  /\ UNCHANGED <<products, stock, price, carts, cartItems, orders, orderItems, born,
                 pre, nreq>>

\* one turn of for (const orderItem of orderItems) await OrderItem.create(...):
\* the INSERT takes its id from the sequence and is rejected, which aborts t,
\* when the product of the line (Product.hasMany(OrderItem)) is gone
PoCreateItem(p) ==
  /\ pc[p] = "po_createItem"
  /\ LET l == loc[p]
         line == l.orderItems[l.j]
         next == IF l.j = Len(l.orderItems) THEN "po_destroy" ELSE "po_createItem"
     IN /\ seqs' = [seqs EXCEPT !.orderItem = @ + 1]
        /\ IF line.productId \in products
             THEN /\ tx' = [tx EXCEPT ![p].orderItems =
                              @ \cup {NewOrderItem(seqs.orderItem, l.orderId, line)}]
                  /\ Goto(p, [l EXCEPT !.j = IF next = "po_destroy" THEN 0 ELSE @ + 1], next)
             ELSE /\ tx' = [tx EXCEPT ![p] = RolledBack(@)]
                  /\ Goto(p, [l EXCEPT !.error = "foreignKey"], "po_catch")
  /\ UNCHANGED <<products, stock, price, carts, cartItems, orders, orderItems, born,
                 pre, nreq>>

\* await CartItem.destroy({ where: { cartId: cart.id }, transaction: t }): the
\* DELETE takes the rows the cart has now and waits for those another
\* transaction is deleting
PoDestroy(p) ==
  /\ pc[p] = "po_destroy"
  /\ \A it \in ItemsOfCart(loc[p].cart) : ~ItemLockedByOther(p, it.id)
  /\ tx' = [tx EXCEPT ![p].deleted = {it.id : it \in ItemsOfCart(loc[p].cart)},
                      ![p].clearedCart = loc[p].cart]
  /\ Goto(p, loc[p], "po_commit")
  /\ UNCHANGED <<db, pre, nreq>>

\* await t.commit()
PoCommit(p) ==
  /\ pc[p] = "po_commit"
  /\ stock' = CommittedStock(tx[p])
  /\ cartItems' = CommittedItems(tx[p])
  /\ orders' = orders \cup {tx[p].order}
  /\ orderItems' = orderItems \cup tx[p].orderItems
  /\ tx' = [tx EXCEPT ![p] = NoTx]
  /\ Goto(p, loc[p], "po_fetch")
  /\ UNCHANGED <<products, price, carts, seqs, born, pre, nreq>>

\* Order.findByPk(order.id, include: items), then 201
PoFetch(p) ==
  /\ pc[p] = "po_fetch"
  /\ RespondTotal(p, loc[p], 201, "ok", loc[p].totalAmount)
  /\ UNCHANGED <<db, tx, pre, nreq>>

\* catch (error) { await t.rollback(); ... res.status(500) }: the database
\* dropped t's writes and locks when the statement failed
PoCatch(p) ==
  /\ pc[p] = "po_catch"
  /\ Respond(p, loc[p], 500, "Error")
  /\ UNCHANGED <<db, tx, pre, nreq>>

\* the row a transaction's next statement waits for is locked by q
WaitsFor(p, q) ==
  /\ p # q
  /\ tx[q].active
  /\ \/ /\ pc[p] = "po_decrement"
        /\ tx[q].decr[loc[p].items[loc[p].i].productId] > 0
     \/ /\ pc[p] = "po_destroy"
        /\ \E it \in ItemsOfCart(loc[p].cart) : it.id \in tx[q].deleted

\* PostgreSQL ends a lock cycle by failing one waiting statement, which aborts
\* its transaction; the handler goes to its catch
PoDeadlock(p) ==
  /\ tx[p].active
  /\ \E q \in Procs : WaitsFor(p, q) /\ WaitsFor(q, p)
  /\ stock' = RolledBackStock(tx[p])
  /\ tx' = [tx EXCEPT ![p] = RolledBack(@)]
  /\ Goto(p, [loc[p] EXCEPT !.error = "deadlock"], "po_catch")
  /\ UNCHANGED <<products, price, carts, cartItems, orders, orderItems, seqs, born,
                 pre, nreq>>

\* a statement of t is rejected by the storage layer (connection lost, statement
\* timeout, constraint), which aborts t; the handler goes to its catch
FailingStep(label) ==
  CASE label = "po_findCart"   -> "findCart"
    [] label = "po_decrement"  -> "decrement"
    [] label = "po_create"     -> "createOrder"
    [] label = "po_createItem" -> "createItem"
    [] label = "po_destroy"    -> "destroy"
    [] label = "po_rollback"   -> "rollback"
    [] label = "po_catch"      -> "rollback"
    [] OTHER                   -> "none"

\* the steps that are an await t.rollback()
RollbackSteps == {"po_rollback", "po_catch"}

PoFail(p) ==
  /\ tx[p].active
  /\ pc[p] \notin RollbackSteps
  /\ FailingStep(pc[p]) # "none"
  /\ stock' = RolledBackStock(tx[p])
  /\ tx' = [tx EXCEPT ![p] = RolledBack(@)]
  /\ Goto(p, [loc[p] EXCEPT !.error = FailingStep(pc[p])], "po_catch")
  /\ UNCHANGED <<products, price, carts, cartItems, orders, orderItems, seqs, born,
                 pre, nreq>>

\* await t.rollback() is rejected, before a 400 or in the catch.  Before a 400
\* the statement is inside the try: the catch calls t.rollback() again, on a
\* transaction Sequelize has marked finished, and that call throws.  In the
\* catch nothing is around the statement.  Either way res.status is never
\* reached and the handler's promise is rejected as in PoBeginFail; the
\* database drops t with the connection.
PoRollbackFail(p, handled) ==
  /\ pc[p] \in RollbackSteps
  /\ stock' = RolledBackStock(tx[p])
  /\ tx' = [tx EXCEPT ![p] = RolledBack(@)]
  /\ pc' = [pc EXCEPT ![p] = IF handled THEN "done" ELSE "crashed"]
  /\ loc' = [loc EXCEPT ![p] = Kept([loc[p] EXCEPT !.error = FailingStep(pc[p])])]
  /\ res' = [res EXCEPT ![p] = IF handled
                                 THEN [status |-> 500, kind |-> "Unhandled", total |-> 0]
                                 ELSE NoRes]
  /\ UNCHANGED <<products, price, carts, cartItems, orders, orderItems, seqs, born,
                 pre, nreq>>

\* const t = await sequelize.transaction() is rejected: the statement is
\* outside the try, so the handler's promise is rejected, which either goes
\* unhandled (process.on('unhandledRejection') ends the process without a
\* response) or reaches the global error handler (500), depending on the router
PoBeginFail(p, u, handled) ==
  /\ Accept(p)
  /\ pc' = [pc EXCEPT ![p] = IF handled THEN "done" ELSE "crashed"]
  /\ loc' = [loc EXCEPT ![p] = Kept([NoLoc EXCEPT !.op = "placeOrder", !.role = "customer",
                                                  !.userId = u, !.error = "begin"])]
  /\ res' = [res EXCEPT ![p] = IF handled
                                 THEN [status |-> 500, kind |-> "Unhandled", total |-> 0]
                                 ELSE NoRes]
  /\ UNCHANGED <<db, tx>>

\* await t.commit() is rejected.  Sequelize marks t finished whatever the
\* outcome, so the catch's await t.rollback() throws in its turn and the
\* handler's own res.status(500) is never reached: the handler's promise is
\* rejected as in PoBeginFail.  The database has either dropped t or, when only
\* the acknowledgement was lost, applied it.
PoCommitFail(p, applied, handled) ==
  /\ pc[p] = "po_commit"
  /\ stock' = IF applied THEN CommittedStock(tx[p]) ELSE RolledBackStock(tx[p])
  /\ cartItems' = IF applied THEN CommittedItems(tx[p]) ELSE cartItems
  /\ orders' = IF applied THEN orders \cup {tx[p].order} ELSE orders
  /\ orderItems' = IF applied THEN orderItems \cup tx[p].orderItems ELSE orderItems
  /\ tx' = [tx EXCEPT ![p] = NoTx]
  /\ pc' = [pc EXCEPT ![p] = IF handled THEN "done" ELSE "crashed"]
  /\ loc' = [loc EXCEPT ![p] = Kept([loc[p] EXCEPT !.error = "commit"])]
  /\ res' = [res EXCEPT ![p] = IF handled
                                 THEN [status |-> 500, kind |-> "Unhandled", total |-> 0]
                                 ELSE NoRes]
  /\ UNCHANGED <<products, price, carts, seqs, born, pre, nreq>>

\* Order.findByPk(order.id, ...) after the commit is rejected: the catch's
\* await t.rollback() runs on the committed transaction and throws, so the
\* handler's promise is rejected as in PoCommitFail and what was committed stays
PoFetchFail(p, handled) ==
  /\ pc[p] = "po_fetch"
  /\ pc' = [pc EXCEPT ![p] = IF handled THEN "done" ELSE "crashed"]
  /\ loc' = [loc EXCEPT ![p] = Kept([loc[p] EXCEPT !.error = "fetch"])]
  /\ res' = [res EXCEPT ![p] = IF handled
                                 THEN [status |-> 500, kind |-> "Unhandled", total |-> 0]
                                 ELSE NoRes]
  /\ UNCHANGED <<db, tx, pre, nreq>>
\* ------------------------------------------------------------- authorize
\* currentRole(request)
Roles == {"customer", "admin"}

\* a gate that lets every role through
AuthorizedAnyRole(role, allowed) == TRUE

\* authorize(...allowed): the request goes on to the handler when the role of
\* its caller is one of the allowed ones
Authorized(role, allowed) == role \in allowed

\* authorize(...allowed) for a caller of another role: 403 before the handler
\* runs
Forbidden(p, l) ==
  /\ Accept(p)
  /\ Respond(p, l, 403, "Forbidden")
  /\ UNCHANGED <<db, tx>>

\* ------------------------------------------------------------- getMyOrders
\* Order.findAll({ where: { userId } })
MyOrders(userId) == {o \in orders : o.userId = userId}

\* GET /api/orders
GetMyOrders(p, u) ==
  /\ Accept(p)
  /\ Respond(p, [NoLoc EXCEPT !.op = "getMyOrders", !.role = "customer", !.userId = u,
                              !.seen = {o.id : o \in MyOrders(u)}], 200, "ok")
  /\ UNCHANGED <<db, tx>>

\* ------------------------------------------------------------ getAllOrders
\* getAllOrders: Order.findAll(), whoever the caller is
GetAllOrders(p, role) ==
  /\ Accept(p)
  /\ Respond(p, [NoLoc EXCEPT !.op = "getAllOrders", !.role = role,
                              !.seen = {o.id : o \in orders}], 200, "ok")
  /\ UNCHANGED <<db, tx>>

\* GET /api/orders/admin/all: authorize('admin') in front of getAllOrders
GetAllOrdersRoute(p, role) ==
  IF Authorized(role, {"admin"})
    THEN GetAllOrders(p, role)
    ELSE Forbidden(p, [NoLoc EXCEPT !.op = "getAllOrders", !.role = role])

\* ------------------------------------------------------------ getOrderById
\* the lookup without its owner condition
OrderOfAnyone(id, userId) == {o \in orders : o.id = id}

\* Order.findOne({ where: { id, userId } })
OrderOf(id, userId) == {o \in orders : o.id = id /\ o.userId = userId}

\* GET /api/orders/:id
GetOrderById(p, u, id) ==
  /\ Accept(p)
  /\ LET l == [NoLoc EXCEPT !.op = "getOrderById", !.role = "customer", !.userId = u, !.orderId = id] IN
       IF OrderOf(id, u) = {}
         THEN Respond(p, l, 404, "OrderNotFound")
         ELSE \E o \in OrderOf(id, u) :
                RespondTotal(p, [l EXCEPT !.seen = {o.id}], 200, "ok", o.totalAmount)
  /\ UNCHANGED <<db, tx>>

\* ------------------------------------------------------- updateOrderStatus
ValidStatuses == {"pending", "completed", "cancelled"}
InvalidStatus == "shipped"

\* the check that lets every status through
AnyStatus(status) == TRUE

\* ['pending', 'completed', 'cancelled'].includes(status)
StatusAccepted(status) == status \in ValidStatuses

\* UPDATE "Orders" SET status WHERE id
StatusUpdated(rows, id, status) ==
  {IF o.id = id THEN [o EXCEPT !.status = status] ELSE o : o \in rows}

\* updateOrderStatus, whoever the caller is: the status check, then
\* Order.findByPk(id)
UpdateOrderStatus(p, role, id, status) ==
  /\ Accept(p)
  /\ LET l == [NoLoc EXCEPT !.op = "updateOrderStatus", !.role = role, !.orderId = id,
                            !.status = status] IN
       IF ~StatusAccepted(status) THEN Respond(p, l, 400, "InvalidInput")
       ELSE IF \A o \in orders : o.id # id THEN Respond(p, l, 404, "OrderNotFound")
       ELSE Goto(p, [l EXCEPT !.order = CHOOSE o \in orders : o.id = id], "ord_update")
  /\ UNCHANGED <<db, tx>>

\* PUT /api/orders/:id/status: authorize('admin') in front of updateOrderStatus
UpdateOrderStatusRoute(p, role, id, status) ==
  IF Authorized(role, {"admin"})
    THEN UpdateOrderStatus(p, role, id, status)
    ELSE Forbidden(p, [NoLoc EXCEPT !.op = "updateOrderStatus", !.role = role,
                                    !.orderId = id, !.status = status])

\* await order.update({ status }): UPDATE "Orders" SET status WHERE id when the
\* status differs from the one the handler read, no query when it is the same
OrdUpdate(p) ==
  /\ pc[p] = "ord_update"
  /\ orders' = IF loc[p].status = loc[p].order.status
                 THEN orders
                 ELSE StatusUpdated(orders, loc[p].orderId, loc[p].status)
  /\ Goto(p, loc[p], "ord_refetch")
  /\ UNCHANGED <<products, stock, price, carts, cartItems, orderItems, seqs, born,
                 tx, pre, nreq>>

\* const updatedOrder = await Order.findByPk(order.id, ...), then res.status(200)
OrdRefetch(p) ==
  /\ pc[p] = "ord_refetch"
  /\ Respond(p, loc[p], 200, "ok")
  /\ UNCHANGED <<db, tx, pre, nreq>>

\* -------------------------------------------------------------------- Next
ItemIds == {it.id : it \in cartItems} \cup {seqs.item}
OrderIds == {o.id : o \in orders} \cup {seqs.order}

Handler(p) ==
  \/ \E u \in Users, prod \in Products, q \in Quantities, asText \in BOOLEAN :
       AddToCart(p, u, prod, q, asText)
  \/ AddFindCart(p)
  \/ AddCreateCart(p)
  \/ AddFindItem(p)
  \/ AddSave(p)
  \/ AddCreate(p)
  \/ AddRefetch(p)
  \/ \E u \in Users : GetCart(p, u)
  \/ GetCreateCart(p)
  \/ \E u \in Users, id \in ItemIds, q \in 0..MaxQty \cup {NoQuantity} :
       UpdateCartItem(p, u, id, q)
  \/ UpdFindItem(p)
  \/ UpdSave(p)
  \/ UpdRefetch(p)
  \/ \E u \in Users, id \in ItemIds : RemoveFromCart(p, u, id)
  \/ RemFindItem(p)
  \/ RemDestroy(p)
  \/ RemRefetch(p)
  \/ \E u \in Users : ClearCart(p, u)
  \/ ClrDestroy(p)
  \/ \E u \in Users : PlaceOrder(p, u)
  \/ PoFindCart(p)
  \/ PoDecrement(p)
  \/ PoRollback(p)
  \/ PoCreateOrder(p)
  \/ PoCreateItem(p)
  \/ PoDestroy(p)
  \/ PoCommit(p)
  \/ PoFetch(p)
  \/ \E np \in Prices, ns \in Stocks, c \in CategoryIds : CreateProduct(p, np, ns, c)
  \/ CpCreate(p)
  \/ CpRefetch(p)
  \/ \E prod \in Products, np \in Prices, ns \in Stocks, c \in CategoryIds,
        sameRest \in BOOLEAN :
       UpdateProduct(p, prod, np, ns, c, sameRest)
  \/ ProdCategory(p)
  \/ ProdUpdate(p)
  \/ ProdRefetch(p)
  \/ \E prod \in Products : DeleteProduct(p, prod)
  \/ DpDestroy(p)
  \/ \E u \in Users, id \in OrderIds : GetOrderById(p, u, id)
  \/ \E u \in Users : GetMyOrders(p, u)
  \/ \E role \in Roles : GetAllOrdersRoute(p, role)
  \/ \E role \in Roles, id \in OrderIds, status \in ValidStatuses \cup {InvalidStatus} :
       UpdateOrderStatusRoute(p, role, id, status)
  \/ OrdUpdate(p)
  \/ OrdRefetch(p)

\* two requests arrive together and the steps of their handlers interleave; a
\* statement of a checkout is rejected when the other request deleted the
\* product or the database breaks a deadlock, and the catch block runs
Next == \E p \in Together : Handler(p) \/ PoDeadlock(p) \/ PoCatch(p)

Spec == Init /\ [][Next]_vars

\* the requests arrive one after the other; a transaction alone never waits
\* and none of its statements is rejected, so the catch block is not reached
NextSerial == \E p \in {Client} : Handler(p)

SpecSerial == Init /\ [][NextSerial]_vars

\* the requests arrive one after the other and the storage layer may reject a
\* statement of a checkout, a rollback included
NextFaulty ==
  \E p \in {Client} :
    \/ Handler(p)
    \/ \E u \in Users, handled \in BOOLEAN : PoBeginFail(p, u, handled)
    \/ PoFail(p)
    \/ PoCatch(p)
    \/ \E handled \in BOOLEAN : PoRollbackFail(p, handled)
    \/ \E applied \in BOOLEAN, handled \in BOOLEAN : PoCommitFail(p, applied, handled)
    \/ \E handled \in BOOLEAN : PoFetchFail(p, handled)

SpecFaulty == Init /\ [][NextFaulty]_vars

\* ------------------------------------------------------------------ claims
Done(p, op) == pc[p] = "done" /\ loc[p].op = op

\* the lines the caller's cart held when the request arrived
PreLines(p) ==
  {it \in pre[p].cartItems :
     \E c \in carts : c.id = it.cartId /\ c.userId = loc[p].userId}
PreLine(p, prod) == {it \in PreLines(p) : it.productId = prod}
LinesFor(u, prod) == {it \in LinesOf(u) : it.productId = prod}

RECURSIVE SumQty(_)
SumQty(rows) ==
  IF rows = {} THEN 0
  ELSE LET r == CHOOSE x \in rows : TRUE IN r.quantity + SumQty(rows \ {r})

OrderQty(orderId, prod) ==
  SumQty({oi \in orderItems : oi.orderId = orderId /\ oi.productId = prod})

\* C1: two checkouts of different customers that start from the same committed
\* stock never both succeed with more of a product ordered than that stock.
C1_NoOversell ==
  \A p \in Together, q \in Together :
    ( /\ p # q
      /\ Done(p, "placeOrder") /\ res[p].status = 201
      /\ Done(q, "placeOrder") /\ res[q].status = 201
      /\ loc[p].userId # loc[q].userId
      /\ pre[p].stock = pre[q].stock )
    => \A prod \in Products :
         OrderQty(loc[p].orderId, prod) + OrderQty(loc[q].orderId, prod)
           <= pre[p].stock[prod]

\* C2: a checkout that meets a line asking for more than the product's stock
\* answers InsufficientStock and leaves the cart lines, the stocks and the
\* orders as they were when it was called.
C2_InsufficientStockRollsBack ==
  ( /\ Done(Client, "placeOrder")
    /\ \E it \in PreLines(Client) : it.quantity > pre[Client].stock[it.productId] )
  => /\ res[Client].status = 400
     /\ res[Client].kind = "InsufficientStock"
     /\ Snapshot = pre[Client]

\* the failing line came after a line that had been decremented inside t
C2_Witness ==
  /\ Done(Client, "placeOrder")
  /\ res[Client].kind = "InsufficientStock"
  /\ loc[Client].i > 1

\* C3: after a successful checkout the caller's cart row is still there with no
\* line, and every product's stock went down by exactly the quantity of the
\* caller's line for it (by nothing for a product that was not in the cart).
C3_CheckoutClearsAndDecrements ==
  ( Done(Client, "placeOrder") /\ res[Client].status = 201 )
  => /\ LinesOf(loc[Client].userId) = {}
     /\ \E c \in carts : c.id = loc[Client].cart /\ c.userId = loc[Client].userId
     /\ \A prod \in Products :
          stock[prod] = pre[Client].stock[prod] - SumQty(PreLine(Client, prod))

\* a checkout of a cart that held one product and not the other
C3_Witness ==
  /\ Done(Client, "placeOrder") /\ res[Client].status = 201
  /\ \E prod \in Products : PreLine(Client, prod) = {}
  /\ \E prod \in Products : SumQty(PreLine(Client, prod)) > 1

\* C4: every cart line carries the price its product had when the line was
\* inserted, whatever happened since, and a checkout copies exactly that price
\* into the order line made from the cart line.
C4_PriceFrozen ==
  /\ \A it \in cartItems : it.priceAtAdd = born[it.id]
  /\ ( Done(Client, "placeOrder") /\ res[Client].status = 201 )
     => LET mine == {oi \in orderItems : oi.orderId = loc[Client].orderId} IN
        /\ \A line \in PreLines(Client) : \E oi \in mine :
             /\ oi.productId = line.productId
             /\ oi.quantity = line.quantity
             /\ oi.priceAtPurchase = born[line.id]
        /\ \A oi \in mine : \E line \in PreLines(Client) :
             /\ oi.productId = line.productId
             /\ oi.priceAtPurchase = born[line.id]

\* an order line whose price is not the product's price at checkout
C4_Witness ==
  /\ Done(Client, "placeOrder") /\ res[Client].status = 201
  /\ \E oi \in orderItems :
       /\ oi.orderId = loc[Client].orderId
       /\ oi.priceAtPurchase # pre[Client].price[oi.productId]
       /\ oi.priceAtPurchase # price[oi.productId]

\* C5: a checkout by a customer with no cart or with a cart without lines
\* answers 400 'Cart is empty', makes no order or order line and changes no stock.
C5_EmptyCartRejected ==
  ( Done(Client, "placeOrder") /\ PreLines(Client) = {} )
  => /\ res[Client].status = 400
     /\ res[Client].kind = "CartEmpty"
     /\ orders = pre[Client].orders
     /\ orderItems = pre[Client].orderItems
     /\ stock = pre[Client].stock

\* the cart row exists and has no line
C5_Witness ==
  /\ Done(Client, "placeOrder") /\ res[Client].kind = "CartEmpty"
  /\ loc[Client].cart # 0

\* C6: adding a product that has no line in the caller's cart, with a quantity
\* above the product's stock, answers InsufficientStock and inserts no line.
C6_NewLineNeedsStock ==
  ( /\ Done(Client, "addToCart")
    /\ loc[Client].productId \in pre[Client].products
    /\ PreLine(Client, loc[Client].productId) = {}
    /\ loc[Client].quantity > pre[Client].stock[loc[Client].productId] )
  => /\ res[Client].kind = "InsufficientStock"
     /\ cartItems = pre[Client].cartItems

\* C7: adding a product that has a line in the caller's cart answers
\* InsufficientStock when the line's quantity plus the requested one exceeds the
\* product's stock, and the cart lines stay as they were.
C7_ExistingLineNeedsStock ==
  ( /\ Done(Client, "addToCart")
    /\ \E line \in PreLine(Client, loc[Client].productId) :
         line.quantity + loc[Client].quantity
           > pre[Client].stock[loc[Client].productId] )
  => /\ res[Client].status = 400
     /\ res[Client].kind = "InsufficientStock"
     /\ cartItems = pre[Client].cartItems

\* the second add is refused although its own quantity is within the stock
C7_Witness ==
  /\ Done(Client, "addToCart") /\ res[Client].kind = "InsufficientStock"
  /\ PreLine(Client, loc[Client].productId) # {}
  /\ loc[Client].quantity <= pre[Client].stock[loc[Client].productId]

\* C8: a successful first add of a product inserts one line with the requested
\* quantity at the product's price; a successful later add leaves that one line,
\* its quantity raised by the requested one and its price still the product's
\* price at the first add.
C8_AddsMerge ==
  ( /\ Done(Client, "addToCart") /\ res[Client].status = 200 )
  => LET u == loc[Client].userId
         prod == loc[Client].productId
         q == loc[Client].quantity
         before == PreLine(Client, prod)
     IN /\ before = {} =>
             \E it \in cartItems :
               /\ LinesFor(u, prod) = {it}
               /\ it.quantity = q
               /\ it.priceAtAdd = pre[Client].price[prod]
               /\ born[it.id] = pre[Client].price[prod]
        /\ \A line \in before :
             /\ LinesFor(u, prod) = {[line EXCEPT !.quantity = line.quantity + q]}
             /\ line.priceAtAdd = born[line.id]

\* C9: a cart never holds two lines for the same product.
C9_OneLinePerProduct ==
  \A a \in cartItems, b \in cartItems :
    (a.cartId = b.cartId /\ a.productId = b.productId) => a.id = b.id

\* C10: a customer never has two cart rows.
C10_OneCartPerUser ==
  \A a \in carts, b \in carts : a.userId = b.userId => a.id = b.id

\* C11: two checkouts of the same customer that are in flight together never
\* both succeed with an order made from a cart line that both of them read.
C11_NoDoubleCheckout ==
  \A p \in Together, q \in Together :
    ( /\ p # q
      /\ Done(p, "placeOrder") /\ res[p].status = 201
      /\ Done(q, "placeOrder") /\ res[q].status = 201
      /\ loc[p].userId = loc[q].userId )
    => PreLines(p) \cap PreLines(q) = {}

\* C12: the committed stock of every product is at least 0.
C12_StockNeverNegative == \A prod \in Products : stock[prod] >= 0

\* C13: a checkout in which a statement of the transaction (a decrement, the
\* insert of the order or of an order line, the delete or the commit) was
\* rejected ends with a 500 response and with the cart lines, stocks, orders
\* and order lines as they were at its call.
C13_FailureRollsBack ==
  ( /\ loc[Client].op = "placeOrder"
    /\ loc[Client].error \in {"decrement", "createOrder", "createItem", "destroy", "commit"}
    /\ pc[Client] \in {"done", "crashed"} )
  => /\ pc[Client] = "done"
     /\ res[Client].status = 500
     /\ Snapshot = pre[Client]

\* C14: a checkout issues a stock decrement only once every line of the cart it
\* read has passed the stock check: at each decrement the lines checked so far,
\* 1..i, are all the lines.
C14_ValidateBeforeDecrement ==
  [][ \A p \in Procs :
        ( tx[p].active /\ tx'[p].active /\ tx'[p].decr # tx[p].decr )
        => loc[p].i = Len(loc[p].items) ]_vars

\* C15: a successful checkout adds exactly one order, owned by the caller and
\* pending, and exactly one order line per cart line of the caller, with the
\* cart line's productId and quantity and its priceAtAdd as priceAtPurchase.
C15_OneOrderPerCheckout ==
  ( Done(Client, "placeOrder") /\ res[Client].status = 201 )
  => LET newOrders == orders \ pre[Client].orders
         newItems == orderItems \ pre[Client].orderItems
     IN /\ \E o \in orders :
             /\ newOrders = {o}
             /\ o.id = loc[Client].orderId
             /\ o.userId = loc[Client].userId
             /\ o.status = "pending"
        /\ \A oi \in newItems : oi.orderId = loc[Client].orderId
        /\ Cardinality(newItems) = Cardinality(PreLines(Client))
        /\ \A line \in PreLines(Client) : \E oi \in newItems :
             /\ oi.productId = line.productId
             /\ oi.quantity = line.quantity
             /\ oi.priceAtPurchase = line.priceAtAdd

\* a checkout of a cart of two lines
C15_Witness ==
  /\ Done(Client, "placeOrder") /\ res[Client].status = 201
  /\ Cardinality(PreLines(Client)) = 2
  /\ Cardinality({oi \in orderItems : oi.orderId = loc[Client].orderId}) = 2

RECURSIVE SumLines(_)
\* the sum of priceAtPurchase * quantity over order lines, in minor units
SumLines(rows) ==
  IF rows = {} THEN 0
  ELSE LET r == CHOOSE x \in rows : TRUE
       IN r.priceAtPurchase * r.quantity + SumLines(rows \ {r})

RECURSIVE SumAtPrice(_, _)
\* the sum of unit price * quantity over cart lines at the prices pr
SumAtPrice(rows, pr) ==
  IF rows = {} THEN 0
  ELSE LET r == CHOOSE x \in rows : TRUE
       IN pr[r.productId] * r.quantity + SumAtPrice(rows \ {r}, pr)

\* C16: the totalAmount of every order is the sum over its order lines of
\* priceAtPurchase * quantity.
C16_TotalIsSumOfLines ==
  \A o \in orders :
    o.totalAmount = SumLines({oi \in orderItems : oi.orderId = o.id})

\* C17: no step of any operation removes an order, changes its owner or its
\* totalAmount, or adds, removes or changes an order line of an order that
\* exists.
C17_OrdersImmutable ==
  [][ \A o \in orders :
        /\ \E o2 \in orders' :
             /\ o2.id = o.id
             /\ o2.userId = o.userId
             /\ o2.totalAmount = o.totalAmount
        /\ {oi \in orderItems' : oi.orderId = o.id}
             = {oi \in orderItems : oi.orderId = o.id} ]_vars

\* C18: every order's status is pending, completed or cancelled; an
\* updateOrderStatus of an admin with another value answers 400 InvalidInput and leaves the
\* orders as they were, and one with a value of the three on an order that
\* exists leaves that order with exactly that status.
C18_StatusDomain ==
  /\ \A o \in orders : o.status \in {"pending", "completed", "cancelled"}
  /\ (Done(Client, "updateOrderStatus") /\ loc[Client].role = "admin")
     => IF loc[Client].status \notin {"pending", "completed", "cancelled"}
          THEN /\ res[Client].status = 400
               /\ res[Client].kind = "InvalidInput"
               /\ orders = pre[Client].orders
          ELSE \A was \in pre[Client].orders :
                 was.id = loc[Client].orderId
                 => /\ res[Client].status = 200
                    /\ orders = (pre[Client].orders \ {was})
                                   \cup {[was EXCEPT !.status = loc[Client].status]}

\* an order that was moved away from pending is moved back to it
C18_Witness ==
  /\ Done(Client, "updateOrderStatus") /\ res[Client].status = 200
  /\ loc[Client].status = "pending"
  /\ \E was \in pre[Client].orders :
       was.id = loc[Client].orderId /\ was.status # "pending"
  /\ \E o \in orders : o.id = loc[Client].orderId /\ o.status = "pending"

\* C19: getOrderById for an id that is not an order of the caller answers the
\* same 404 'Order not found', whether the id is another customer's order or
\* no order at all, and changes nothing.
C19_ForeignOrderNotFound ==
  ( /\ Done(Client, "getOrderById")
    /\ \A o \in orders :
         o.id = loc[Client].orderId => o.userId # loc[Client].userId )
  => /\ res[Client] = [status |-> 404, kind |-> "OrderNotFound", total |-> 0]
     /\ Snapshot = pre[Client]

\* the order asked for exists and belongs to another customer
C19_Witness ==
  /\ Done(Client, "getOrderById") /\ res[Client].status = 404
  /\ \E o \in orders :
       o.id = loc[Client].orderId /\ o.userId # loc[Client].userId

CartOps == {"addToCart", "updateCartItem", "removeFromCart", "clearCart", "placeOrder"}

\* the rows of cart lines that are in no cart of customer u
LinesOfOthers(rows, u) ==
  {it \in rows : \A c \in carts : c.id = it.cartId => c.userId # u}

\* C20: during and after a cart operation of a customer the cart lines of the
\* other customers are as they were when it was called, and updateCartItem and
\* removeFromCart called with the id of another customer's line answer 404.
C20_CartsIsolated ==
  loc[Client].op \in CartOps
  => /\ LinesOfOthers(cartItems, loc[Client].userId)
          = LinesOfOthers(pre[Client].cartItems, loc[Client].userId)
     /\ ( /\ Done(Client, "updateCartItem") \/ Done(Client, "removeFromCart")
          /\ \E it \in LinesOfOthers(pre[Client].cartItems, loc[Client].userId) :
               it.id = loc[Client].itemId )
        => /\ res[Client].status = 404
           /\ res[Client].kind \in {"CartNotFound", "CartItemNotFound"}

\* a customer who has a cart names the line of another customer
C20_Witness ==
  /\ Done(Client, "updateCartItem") \/ Done(Client, "removeFromCart")
  /\ res[Client].kind = "CartItemNotFound"
  /\ \E it \in LinesOfOthers(cartItems, loc[Client].userId) :
       it.id = loc[Client].itemId

\* C21: a successful updateCartItem leaves the line it names with exactly the
\* requested quantity and its priceAtAdd, and every other cart line, every
\* stock and every price as they were.
C21_UpdateSetsQuantity ==
  ( Done(Client, "updateCartItem") /\ res[Client].status = 200 )
  => /\ \E was \in PreLines(Client) :
          /\ was.id = loc[Client].itemId
          /\ cartItems = (pre[Client].cartItems \ {was})
                            \cup {[was EXCEPT !.quantity = loc[Client].quantity]}
     /\ stock = pre[Client].stock
     /\ price = pre[Client].price

\* the quantity is lowered to one on a line that held more
C21_Witness ==
  /\ Done(Client, "updateCartItem") /\ res[Client].status = 200
  /\ loc[Client].quantity = 1
  /\ \E was \in PreLines(Client) : was.id = loc[Client].itemId /\ was.quantity > 1
  /\ \E it \in cartItems : it.id = loc[Client].itemId /\ it.quantity = 1

\* C22: every cart line has a quantity of at least 1, and updateCartItem on a
\* line of the caller's cart, called with a quantity, answers 400 InvalidInput
\* for a quantity below 1 and 400 InsufficientStock for a quantity above the
\* product's stock at the call, leaving the cart lines as they were.
C22_UpdateValidates ==
  /\ \A it \in cartItems : it.quantity >= 1
  /\ ( /\ Done(Client, "updateCartItem")
       /\ loc[Client].quantity # NoQuantity
       /\ \E was \in PreLines(Client) : was.id = loc[Client].itemId )
     => /\ loc[Client].quantity < 1
           => /\ res[Client].status = 400
              /\ res[Client].kind = "InvalidQuantity"
              /\ cartItems = pre[Client].cartItems
        /\ \A was \in PreLines(Client) :
             ( /\ was.id = loc[Client].itemId
               /\ loc[Client].quantity >= 1
               /\ loc[Client].quantity > pre[Client].stock[was.productId] )
             => /\ res[Client].status = 400
                /\ res[Client].kind = "InsufficientStock"
                /\ cartItems = pre[Client].cartItems

\* the quantity asked for was in stock when the line was added and is not now
C22_Witness ==
  /\ Done(Client, "updateCartItem") /\ res[Client].kind = "InsufficientStock"
  /\ \E was \in PreLines(Client) :
       /\ was.id = loc[Client].itemId
       /\ loc[Client].quantity <= was.quantity
       /\ loc[Client].quantity > stock[was.productId]

\* C23: clearCart succeeds, with or without a cart, and leaves exactly the cart
\* lines that were not the caller's.
C23_ClearCartAlwaysSucceeds ==
  Done(Client, "clearCart")
  => /\ res[Client].status = 200
     /\ cartItems = pre[Client].cartItems \ PreLines(Client)

\* C23 as the code has it: clearCart of a customer who has a cart answers 200
\* and leaves exactly the cart lines that were not the caller's; of a customer
\* who has no cart it answers 404 'Cart not found' and changes nothing.
C23_ClearCart ==
  Done(Client, "clearCart")
  => IF CartsOf(loc[Client].userId) = {}
       THEN /\ res[Client].status = 404
            /\ res[Client].kind = "CartNotFound"
            /\ Snapshot = pre[Client]
       ELSE /\ res[Client].status = 200
            /\ cartItems = pre[Client].cartItems \ PreLines(Client)
            /\ stock = pre[Client].stock

\* the caller's lines are gone and those of another customer are still there
C23_Witness ==
  /\ Done(Client, "clearCart") /\ res[Client].status = 200
  /\ PreLines(Client) # {}
  /\ cartItems # {}
  /\ LinesOf(loc[Client].userId) = {}

RECURSIVE SumAtBirth(_)
\* the sum over cart lines of quantity * the product's price when the line was made
SumAtBirth(rows) ==
  IF rows = {} THEN 0
  ELSE LET r == CHOOSE x \in rows : TRUE
       IN born[r.id] * r.quantity + SumAtBirth(rows \ {r})

\* C24: getCart answers 200 with a total that is the sum over the caller's cart
\* lines of quantity * the price the product had when the line was made, and 0
\* for a cart without lines or a cart it has just created.
C24_CartTotal ==
  Done(Client, "getCart")
  => /\ res[Client].status = 200
     /\ res[Client].total = SumAtBirth(LinesOf(loc[Client].userId))
     /\ PreLines(Client) = {} => res[Client].total = 0

\* the total of a cart with a line whose product has changed price since
C24_Witness ==
  /\ Done(Client, "getCart") /\ res[Client].total > 0
  /\ res[Client].total # SumAtPrice(PreLines(Client), price)

\* C25: a request made with the customer role leaves the status of every order
\* as it was and returns only orders of its caller; made to list all orders or
\* to set an order's status it is answered 403 Forbidden, returns no order and
\* changes nothing.
C25_AdminOnly ==
  (pc[Client] = "done" /\ loc[Client].role = "customer")
  => /\ \A was \in pre[Client].orders :
          \E o \in orders : o.id = was.id /\ o.status = was.status
     /\ \A o \in orders : o.id \in loc[Client].seen => o.userId = loc[Client].userId
     /\ loc[Client].op \in {"getAllOrders", "updateOrderStatus"}
        => /\ res[Client] = [status |-> 403, kind |-> "Forbidden", total |-> 0]
           /\ loc[Client].seen = {}
           /\ Snapshot = pre[Client]

\* a customer asks to complete a pending order that exists
C25_Witness ==
  /\ Done(Client, "updateOrderStatus") /\ loc[Client].role = "customer"
  /\ res[Client].status = 403
  /\ loc[Client].status = "completed"
  /\ \E o \in orders : o.id = loc[Client].orderId /\ o.status = "pending"

\* C26: an addToCart that finds the product's line in the cart and succeeds
\* leaves that line's priceAtAdd as it was, a priceAtAdd of zero included,
\* whatever the product costs now; only a line without a price takes the
\* product's current price.
C26_PriceNeverOverwritten ==
  /\ \A it \in cartItems : it.priceAtAdd # NoPrice
  /\ (Done(Client, "addToCart") /\ res[Client].status = 200)
     => \A was \in PreLine(Client, loc[Client].productId) :
          \E it \in cartItems :
            /\ it.id = was.id
            /\ it.priceAtAdd = was.priceAtAdd
            /\ it.priceAtAdd = KeptPrice(was.priceAtAdd,
                                         pre[Client].price[loc[Client].productId])

\* more is added to a line frozen at price zero of a product that costs now
C26_Witness ==
  /\ Done(Client, "addToCart") /\ res[Client].status = 200
  /\ \E was \in PreLine(Client, loc[Client].productId), it \in cartItems :
       /\ it.id = was.id
       /\ was.priceAtAdd = 0
       /\ pre[Client].price[loc[Client].productId] > 0
       /\ it.quantity > was.quantity
       /\ it.priceAtAdd = 0

\* an admin request of handler p that writes a stock: updateProduct writes the
\* stock of its body whatever it was, createProduct and deleteProduct write
\* the row
EditsStock(p) == loc[p].op \in {"createProduct", "updateProduct", "deleteProduct"}

\* the stock of each product before the first checkout
InitialStock == [prod \in Products |-> IF prod \in Stocked THEN MaxStock ELSE 0]

\* C27: while no admin request writes a stock, in every state and under every
\* interleaving of the handlers the initial stock of each product is its
\* committed stock plus the quantities of the committed order lines for it.
C27_StockConservation ==
  (\A p \in Together : ~EditsStock(p))
  => \A prod \in Products :
       InitialStock[prod]
         = stock[prod] + SumQty({oi \in orderItems : oi.productId = prod})

\* two checkouts that ran together have both committed and oversold a product
C27_Witness ==
  /\ \A p \in Together : Done(p, "placeOrder") /\ res[p].status = 201
  /\ \E prod \in Products :
       /\ stock[prod] < 0
       /\ InitialStock[prod]
            = stock[prod] + SumQty({oi \in orderItems : oi.productId = prod})

\* C28: the commit of a checkout deletes only cart lines that are in its
\* order: each line it deletes has an order line of that checkout for the same
\* product and quantity, whatever addToCart or updateCartItem did to the cart
\* after the checkout read it.
C28_DeletesOnlyWhatItOrdered ==
  [][ \A p \in Together :
        (pc[p] = "po_commit" /\ pc'[p] = "po_fetch")
        => \A it \in cartItems \ cartItems' :
             \E oi \in tx[p].orderItems :
               oi.productId = it.productId /\ oi.quantity = it.quantity ]_vars

\* C29: when two addToCart calls of one customer for a product whose line was
\* in the cart at the arrival of both, each with a quantity sent as a number,
\* have both answered 200, that line's quantity is the old one plus both
\* requested quantities and is not above the stock the calls checked.
C29_NoLostIncrement ==
  \A p \in Together : \A q \in Together \ {p} :
    ( /\ Done(p, "addToCart") /\ res[p].status = 200 /\ ~loc[p].asText
      /\ Done(q, "addToCart") /\ res[q].status = 200 /\ ~loc[q].asText
      /\ loc[p].userId = loc[q].userId
      /\ loc[p].productId = loc[q].productId
      /\ PreLine(p, loc[p].productId) = PreLine(q, loc[q].productId) )
    => \A was \in PreLine(p, loc[p].productId) :
         \E it \in cartItems :
           /\ it.id = was.id
           /\ it.quantity = was.quantity + loc[p].quantity + loc[q].quantity
           /\ it.quantity <= pre[p].stock[loc[p].productId]

\* C30: a placeOrder call that has ended has sent a response, and when the
\* response is not the 201 no order of that call is committed, a rejected
\* fetch of the created order after the commit included.
C30_OneResponseNoOrphanOrder ==
  (loc[Client].op = "placeOrder" /\ pc[Client] \in {"done", "crashed"})
  => /\ pc[Client] = "done"
     /\ res[Client].status # 0
     /\ res[Client].status # 201
        => \A o \in orders : o.id = loc[Client].orderId => o \in pre[Client].orders

====
